---- MODULE Spec2Model ----
(***************************************************************************)
(* discord-self-lite: the REST request scheduler (RestManager) and the     *)
(* gateway connection (DiscordWebSocket), as state machines.               *)
(*                                                                         *)
(* JavaScript runs one task at a time: an action is a whole synchronous    *)
(* run of the code, from the event that starts it (a call, a timer, a      *)
(* response) to its next suspension.                                       *)
(*                                                                         *)
(* Time is in milliseconds.  The clock's origin is moved with the present:  *)
(* between two actions Date.now() is 0 and a stored timestamp t holds       *)
(* t - Date.now().  Within an action s.now is the time at which it runs.    *)
(***************************************************************************)
EXTENDS Integers, Sequences, FiniteSets, TLC

(***************************************************************************)
(* Bounds of the model.                                                    *)
(***************************************************************************)
MaxRequests == 2        \* request() calls in a behaviour of Spec
MaxQueued == 3          \* request() calls in a behaviour of QueueSpec
MaxAwaited == 2         \* request() calls in a behaviour of FairQueueSpec
HttpLatency == 40       \* ms between the start of a fetch and its outcome
IdleGap == 700          \* ms a caller may let pass before a request()
Horizon == 3000         \* an observer's timestamp older than this is "long ago"
MaxConnects == 1         \* connect() calls of the caller in GatewaySpec
MaxGateways == 2         \* Client.login() and Client.connect() calls in ClientSpec
MaxFailures == 1         \* closes with a code other than 1000 in ClientSpec
MaxFrames == 2          \* inbound frames handled in a behaviour of GatewaySpec
MaxHeard == 1           \* inbound frames in a behaviour of FairGatewaySpec
MaxTogether == 2        \* request() calls in a behaviour of TogetherSpec
MaxSegments == 2        \* path segments of an endpoint given to getRouteKey
MaxAgain == 2           \* connect() calls of the caller in SupersedeSpec
MaxClicks == 3          \* clickButton() calls in a behaviour of ClickSpec

(***************************************************************************)
(* Program constants.                                                      *)
(***************************************************************************)
maxRetries == 3
InterRequestDelay == 100
BackoffBase == 1000
maxReconnectAttempts == 5
ReconnectBase == 1000
ReconnectCap == 30000
CleanClose == 1000

VARIABLES
  requestQueue,     \* RestManager.requestQueue
  processingQueue,  \* RestManager.processingQueue
  rateLimits,       \* RestManager.rateLimits: route key -> bucket
  globalRateLimit,  \* RestManager.globalRateLimit: <<>> (null) or <<[reset]>>
  loops,            \* the activations of processQueue and where each stands
  obs               \* what an observer of the scheduler has seen so far

restVars == <<requestQueue, processingQueue, rateLimits, globalRateLimit,
              loops, obs>>

\* The fields of a DiscordWebSocket are kept per instance, in the order the
\* instances were made.
VARIABLES
  client,             \* Client: token set, ws (an instance, 0 for null),
                      \* listening (an "error" listener is registered)
  ws,                 \* DiscordWebSocket.ws: a socket of sockets, 0 for null
  sockets,            \* the sockets made by connect(): readyState, instance
  heartbeatInterval,  \* DiscordWebSocket.heartbeatInterval: a timer, 0 for null
  intervals,          \* the setInterval timers that are live
  sequence,           \* DiscordWebSocket.sequence
  sessionId,          \* DiscordWebSocket.sessionId
  ready,              \* DiscordWebSocket.ready
  reconnectAttempts,  \* DiscordWebSocket.reconnectAttempts
  timeouts,           \* the pending setTimeout timers of reconnect()
  gobs                \* what an observer of the connection has seen so far

gatewayVars == <<client, ws, sockets, heartbeatInterval, intervals, sequence, sessionId,
                 ready, reconnectAttempts, timeouts, gobs>>

(***************************************************************************)
(* JavaScript numbers: the integers, and NaN.                              *)
(***************************************************************************)
NaN == 0 - 1000000000
IsNaN(x) == x = NaN
JsLt(a, b) == ~IsNaN(a) /\ ~IsNaN(b) /\ a < b
JsLe(a, b) == ~IsNaN(a) /\ ~IsNaN(b) /\ a <= b
JsAdd(a, b) == IF IsNaN(a) \/ IsNaN(b) THEN NaN ELSE a + b
JsSub(a, b) == IF IsNaN(a) \/ IsNaN(b) THEN NaN ELSE a - b
JsMul(a, b) == IF IsNaN(a) \/ IsNaN(b) THEN NaN ELSE a * b

\* A header that is not sent reads as null; a numeric header is its number.
\* The reset header is written in thousandths of a second.
Absent == NaN
parseInt(h) == IF h = Absent THEN NaN ELSE h
parseFloatTimes1000(h) == IF h = Absent THEN NaN ELSE h

RECURSIVE Pow2(_)
Pow2(n) == IF n <= 0 THEN 1 ELSE 2 * Pow2(n - 1)

Min(a, b) == IF a <= b THEN a ELSE b
Max(a, b) == IF a >= b THEN a ELSE b

\* The one element of a set.  A step below is written
\*    Only({ (the state after the step) : s \in {s0} })
\* which reads "with s the state s0": s0 is worked out once.
Only(S) == CHOOSE x \in S : TRUE

\* setTimeout(f, ms): a delay that is NaN or below 1 is taken as 1.
TimerDelay(ms) == IF IsNaN(ms) \/ ms < 1 THEN 1 ELSE ms

(***************************************************************************)
(* Endpoints are strings, written as sequences of characters.              *)
(***************************************************************************)
Digits == {"0", "1", "2", "3", "4", "5", "6", "7", "8", "9"}

\* The length of the run of digits of e that starts at position i.
RECURSIVE DigitRun(_, _)
DigitRun(e, i) ==
  IF i <= Len(e) /\ e[i] \in Digits THEN 1 + DigitRun(e, i + 1) ELSE 0

\* endpoint.replace(/\/\d+/g, "/{id}"), from position i on.
RECURSIVE ReplaceIds(_, _)
ReplaceIds(e, i) ==
  IF i > Len(e) THEN <<>>
  ELSE IF e[i] = "/" /\ DigitRun(e, i + 1) > 0
       THEN <<"/", "{id}">> \o ReplaceIds(e, i + 1 + DigitRun(e, i + 1))
       ELSE <<e[i]>> \o ReplaceIds(e, i + 1)

toUpperCase(m) ==
  CASE m = "get" -> "GET"
    [] m = "post" -> "POST"
    [] m = "Post" -> "POST"
    [] OTHER -> m

\* The second replace of the source rewrites a match to itself.
getRouteKey(endpoint, method) ==
  <<toUpperCase(method), ":">> \o ReplaceIds(endpoint, 1)

(***************************************************************************)
(* Values of the scheduler.                                                *)
(***************************************************************************)
Endpoints == { <<"/", "c", "/", "1">>, <<"/", "c", "/", "2">>, <<"/", "g", "/", "7">> }
RequestMethods == {""}          \* options.method; "" when it is not given

\* A queued request.  The source also stores its resolve and reject (here:
\* its id, see obs) and the time of the call, which it never reads.
NoRequest == [id |-> 0, endpoint |-> <<>>, method |-> ""]
IdleLoop == [pc |-> "idle", req |-> NoRequest, attempt |-> 0, wakeAt |-> 0]
RequestIds == 1..Max(MaxRequests, Max(MaxQueued, MaxAwaited))
LoopIds == RequestIds

MethodOf(m) == IF m = "" THEN "GET" ELSE m      \* options.method || "GET"

\* What a promise is settled with.
\* n tells the values of a request's attempts apart; status, message and
\* path are the fields of a DiscordAPIError.
Value(kind, n) == [kind |-> kind, n |-> n, status |-> 0, message |-> "", path |-> <<>>]
Undefined == Value("undefined", 0)
JsNull == Value("null", 0)
Body(n) == Value("body", n)
FetchError(n) == Value("FetchError", n)
SyntaxError(n) == Value("SyntaxError", n)
NoValue == Value("none", 0)

\* new DiscordAPIError(message, status, path); an Error made with no message
\* has the empty one.
DiscordAPIError(message, status, path) ==
  [Value("DiscordAPIError", 0) EXCEPT
     !.status = status, !.path = path,
     !.message = IF message = "undefined" THEN "" ELSE message]

\* What an observer keeps of the request that was dequeued last: the bucket
\* of its route when it was dequeued, its HTTP attempts and their outcomes,
\* the wait that came before its latest attempt, and how long before its
\* first attempt the last settlement was (100 ms stands for more as well).
NoCurrent == [id |-> 0, seen |-> <<>>, attempts |-> 0, n429 |-> 0, nThrew |-> 0,
              lastKind |-> "none", waited |-> 0, sinceSettled |-> 0]

\* What an observer keeps of a settlement until the loop's next event: the
\* request, resolve or reject, the value, and the request's attempts.
NoSettlement == [id |-> 0, how |-> "none", val |-> NoValue, of |-> NoCurrent]
Settlement(s0, l, how, val) ==
  Only({ (
    [id |-> s.loops[l].req.id, how |-> how, val |-> val, of |-> s.obs.cur]
    ) : s \in {s0} })

\* The outcomes of one fetch.  threw: fetch rejected (no response).  The
\* quota headers are remaining/reset/limit; reset is relative to the time t
\* at which the response arrives.
NoQuota == [remaining |-> Absent, reset |-> Absent, limit |-> Absent]
Quota(rem, at) == [remaining |-> rem, reset |-> at, limit |-> 5]
Response(status, quota, bodyParses, retryAfter, globalHeader) ==
  [threw |-> FALSE, status |-> status, quota |-> quota, bodyParses |-> bodyParses,
   retryAfter |-> retryAfter, globalHeader |-> globalHeader, message |-> "undefined"]
NetworkFailure ==
  [threw |-> TRUE, status |-> 0, quota |-> NoQuota, bodyParses |-> FALSE,
   retryAfter |-> Absent, globalHeader |-> "null", message |-> "undefined"]
Responses(t) ==
  { Response(200, q, TRUE, Absent, "null") :
      q \in {NoQuota, Quota(0, t + 500), Quota(1, t + 500), Quota(0, t - 200)} }
  \cup { Response(200, NoQuota, FALSE, Absent, "null"),
         Response(204, NoQuota, FALSE, Absent, "null"),
         [Response(404, NoQuota, TRUE, Absent, "null") EXCEPT
            !.message = "Unknown Channel"],
         Response(404, Quota(0, t + 500), FALSE, Absent, "null"),
         Response(429, Quota(0, t + 1000), TRUE, 1, "null"),
         Response(429, NoQuota, TRUE, 1, "true"),
         Response(429, NoQuota, TRUE, 2, "true"),
         NetworkFailure }

\* One outcome of each kind the loop tells apart: a success that leaves a
\* blocking bucket, a success without a body, a network failure, a global 429.
BasicResponses(t) ==
  { Response(200, Quota(0, t + 500), TRUE, Absent, "null"),
    Response(204, NoQuota, FALSE, Absent, "null"),
    Response(429, NoQuota, TRUE, 1, "true"),
    NetworkFailure }

ok(status) == 200 <= status /\ status <= 299           \* response.ok

Range(f) == { f[x] : x \in DOMAIN f }

\* The state of the scheduler as one record, so that a synchronous run of
\* the code is a composition of its steps.
Here ==
  [now |-> 0, requestQueue |-> requestQueue, processingQueue |-> processingQueue,
   rateLimits |-> rateLimits, globalRateLimit |-> globalRateLimit,
   loops |-> loops, obs |-> obs]

\* The waits that come before an HTTP attempt.
Waiting == {"globalWait", "routeWait", "rateLimited", "backoff"}

\* A timestamp t seen from the time at: a program timestamp that is past
\* stays past; an observer's is kept down to the horizon.
Since(t, at, floor) == IF IsNaN(t) THEN NaN ELSE Max(t - at, 0 - floor)

\* The state s, reached at time s.now, with the clock's origin moved there.
Install(s0) ==
  \E s \in {s0} :
  /\ requestQueue' = s.requestQueue
  /\ processingQueue' = s.processingQueue
  /\ rateLimits' =
       [k \in DOMAIN s.rateLimits |->
          [s.rateLimits[k] EXCEPT !.reset = Since(@, s.now, 1),
                                  !.updatedAt = Since(@, s.now, 1)]]
  /\ globalRateLimit' =
       IF s.globalRateLimit = <<>> THEN <<>>
       ELSE <<[reset |-> Since(s.globalRateLimit[1].reset, s.now, 1)]>>
  /\ loops' = [l \in DOMAIN s.loops |->
                 [s.loops[l] EXCEPT !.wakeAt = Since(@, s.now, 0)]]
  /\ UNCHANGED gatewayVars
  /\ obs' = [s.obs EXCEPT !.mark = IF \E l \in DOMAIN s.loops : s.loops[l].pc \in Waiting
                                   THEN Since(@, s.now, Horizon) ELSE 0,
                          !.settledAt = Since(@, s.now, InterRequestDelay),
                          !.gUntil = Since(@, s.now, 1)]

(***************************************************************************)
(* RestManager: the steps of processQueue and makeRequest.  Each takes the *)
(* state s and the activation l of processQueue that runs, and gives the   *)
(* state at the next suspension of l.                                      *)
(***************************************************************************)

\* sleep(ms): a timer; the activation goes on at pc when it fires.
sleep(s0, l, ms, pc) ==
  Only({ (
    [s EXCEPT !.loops[l].pc = pc, !.loops[l].wakeAt = s.now + TimerDelay(ms)]
    ) : s \in {s0} })

\* resolve(result), then the 100 ms pause before the next request.
processQueue_resolve(s0, l, val) ==
  Only({ (
    LET id == s.loops[l].req.id
        s1 == [s EXCEPT !.obs.resolves[id] = @ + 1,
                        !.obs.last = Settlement(s, l, "resolve", val),
                        !.obs.settledAt = s.now]
    IN sleep(s1, l, InterRequestDelay, "pause")
    ) : s \in {s0} })

\* The head of makeRequest's while loop: one more fetch, or the end of the
\* loop, where the function returns undefined.
makeRequest_attempt(s0, l) ==
  Only({ (
    LET id == s.loops[l].req.id IN
    IF s.loops[l].attempt < maxRetries
    THEN [s EXCEPT !.loops[l].pc = "fetch",
                   !.loops[l].wakeAt = s.now,
                   !.obs.cur.attempts = @ + 1,
                   !.obs.cur.sinceSettled =
                      IF s.obs.cur.attempts = 0
                      THEN Min(s.now - s.obs.settledAt, InterRequestDelay) ELSE @,
                   !.obs.settledAt =
                      IF s.obs.cur.attempts = 0 THEN s.now - InterRequestDelay ELSE @,
                   !.obs.cur.waited = s.now - s.obs.mark,
                   !.obs.cur.lastKind = "pending",
                   !.obs.started = IF id \in Range(@) THEN @ ELSE Append(@, id)]
    ELSE processQueue_resolve(s, l, Undefined)
    ) : s \in {s0} })

makeRequest(s0, l) ==
  Only({ (
    makeRequest_attempt([s EXCEPT !.loops[l].attempt = 0], l)
    ) : s \in {s0} })

routeBlocked_negativeOnly(s0, routeKey) ==
  Only({ (
    /\ routeKey \in DOMAIN s.rateLimits
    /\ s.rateLimits[routeKey].remaining < 0
    /\ JsLt(s.now, s.rateLimits[routeKey].reset)
    ) : s \in {s0} })

\* Whether the bucket stored for a route holds the request back.
routeBlocked(s0, routeKey) ==
  Only({ (
    /\ routeKey \in DOMAIN s.rateLimits
    /\ s.rateLimits[routeKey].remaining <= 0
    /\ JsLt(s.now, s.rateLimits[routeKey].reset)
    ) : s \in {s0} })

shift_pop(q) == [item |-> q[Len(q)], rest |-> SubSeq(q, 1, Len(q) - 1)]
shift_peek(q) == [item |-> Head(q), rest |-> q]

\* Array.shift(): the first element, and what is left.
shift(q) == [item |-> Head(q), rest |-> Tail(q)]

\* requestQueue.shift(), the route's bucket, and the request itself.
processQueue_shift(s0, l) ==
  Only({ (
    LET request == shift(s.requestQueue).item
        routeKey == getRouteKey(request.endpoint, MethodOf(request.method))
        s1 == [s EXCEPT !.requestQueue = shift(@).rest,
                        !.loops[l].req = request,
                        !.obs.dequeued[request.id] = @ + 1,
                        !.obs.mark = s.now,
                        !.obs.cur = [NoCurrent EXCEPT
                                       !.id = request.id,
                                       !.seen = IF routeKey \in DOMAIN s.rateLimits
                                                THEN <<[remaining |-> s.rateLimits[routeKey].remaining,
                                                        resetIn |-> JsSub(s.rateLimits[routeKey].reset, s.now)]>>
                                                ELSE <<>>]]
    IN IF routeBlocked(s1, routeKey)
       THEN sleep(s1, l, s1.rateLimits[routeKey].reset - s1.now, "routeWait")
       ELSE makeRequest(s1, l)
    ) : s \in {s0} })

\* Whether the global limit holds the loop back.
globalBlocked(s0) ==
  Only({ (
    /\ s.globalRateLimit # <<>>
    /\ JsLt(s.now, s.globalRateLimit[1].reset)
    ) : s \in {s0} })

\* The head of processQueue's while loop, and its end.
processQueue_loop_once(s0, l) ==
  Only({ (
    IF Len(s.requestQueue) > 0 /\ s.loops[l].req = NoRequest
    THEN IF globalBlocked(s)
         THEN sleep(s, l, s.globalRateLimit[1].reset - s.now, "globalWait")
         ELSE processQueue_shift(s, l)
    ELSE [s EXCEPT !.processingQueue = FALSE, !.loops[l] = IdleLoop]
    ) : s \in {s0} })

processQueue_loop(s0, l) ==
  Only({ (
    IF Len(s.requestQueue) > 0
    THEN IF globalBlocked(s)
         THEN sleep(s, l, s.globalRateLimit[1].reset - s.now, "globalWait")
         ELSE processQueue_shift(s, l)
    ELSE [s EXCEPT !.processingQueue = FALSE, !.loops[l] = IdleLoop]
    ) : s \in {s0} })

processQueue_reject_leavesLoop(s0, l, err) ==
  Only({ (
    LET id == s.loops[l].req.id
    IN [s EXCEPT !.obs.rejects[id] = @ + 1,
                 !.obs.last = Settlement(s, l, "reject", err),
                 !.obs.settledAt = s.now,
                 !.loops[l] = IdleLoop]
    ) : s \in {s0} })

\* catch (error) { reject(error) }: no pause, the loop goes on.
processQueue_reject(s0, l, err) ==
  Only({ (
    LET id == s.loops[l].req.id
        s1 == [s EXCEPT !.obs.rejects[id] = @ + 1,
                        !.obs.last = Settlement(s, l, "reject", err),
                        !.obs.settledAt = s.now]
    IN processQueue_loop(s1, l)
    ) : s \in {s0} })

backoffDelay_constant(attempt) == BackoffBase

\* Math.pow(2, attempt) * 1000
backoffDelay(attempt) == Pow2(attempt) * BackoffBase

\* makeRequest's catch: whatever was thrown in the try block.
makeRequest_catch(s0, l, error) ==
  Only({ (
    IF s.loops[l].attempt = maxRetries - 1
    THEN processQueue_reject(s, l, error)
    ELSE sleep(s, l, backoffDelay(s.loops[l].attempt), "backoff")
    ) : s \in {s0} })

cleanupRateLimits_keepsAll(s0) == s0

\* cleanupRateLimits(): delete every bucket with now > reset.
cleanupRateLimits(s0) ==
  Only({ (
    LET keep == { k \in DOMAIN s.rateLimits : ~JsLt(s.rateLimits[k].reset, s.now) }
    IN [s EXCEPT !.rateLimits = [k \in keep |-> s.rateLimits[k]],
                 !.obs.pruned = DOMAIN s.rateLimits \ keep]
    ) : s \in {s0} })

updateRateLimits_createOnly(s0, endpoint, method, headers) ==
  Only({ (
    LET routeKey == getRouteKey(endpoint, method)
        remaining == parseInt(headers.remaining)
        resetTimestamp == parseFloatTimes1000(headers.reset)
        limit == parseInt(headers.limit)
        bucket == [remaining |-> remaining, reset |-> resetTimestamp,
                   limit |-> limit, updatedAt |-> s.now]
    IN IF ~IsNaN(remaining) /\ ~IsNaN(resetTimestamp)
       THEN cleanupRateLimits(
              [s EXCEPT !.rateLimits =
                 [k \in DOMAIN @ \cup {routeKey} |->
                    IF k \in DOMAIN @ THEN @[k] ELSE bucket]])
       ELSE s
    ) : s \in {s0} })

\* updateRateLimits(endpoint, method, headers), cleanupRateLimits() included.
updateRateLimits(s0, endpoint, method, headers) ==
  Only({ (
    LET routeKey == getRouteKey(endpoint, method)
        remaining == parseInt(headers.remaining)
        resetTimestamp == parseFloatTimes1000(headers.reset)
        limit == parseInt(headers.limit)
        bucket == [remaining |-> remaining, reset |-> resetTimestamp,
                   limit |-> limit, updatedAt |-> s.now]
    IN IF ~IsNaN(remaining) /\ ~IsNaN(resetTimestamp)
       THEN cleanupRateLimits(
              [s EXCEPT !.rateLimits =
                 [k \in DOMAIN @ \cup {routeKey} |->
                    IF k = routeKey THEN bucket ELSE @[k]]])
       ELSE s
    ) : s \in {s0} })

makeRequest_rateLimited_inSeconds(s0, l, response) ==
  Only({ (
    LET retryAfter == parseInt(response.retryAfter)
        isGlobal == response.globalHeader = "true"
        s1 == IF isGlobal
              THEN [s EXCEPT !.globalRateLimit = <<[reset |-> JsAdd(s.now, retryAfter)]>>]
              ELSE s
    IN sleep(s1, l, retryAfter, "rateLimited")
    ) : s \in {s0} })

\* A 429: the global limit when flagged, then the wait the server asked for.
makeRequest_rateLimited(s0, l, response) ==
  Only({ (
    LET retryAfter == JsMul(parseInt(response.retryAfter), 1000)
        isGlobal == response.globalHeader = "true"
        s1 == IF isGlobal
              THEN [s EXCEPT !.globalRateLimit = <<[reset |-> JsAdd(s.now, retryAfter)]>>]
              ELSE s
    IN sleep(s1, l, retryAfter, "rateLimited")
    ) : s \in {s0} })

errorMessage_placeholder(response) == "Unknown error"

\* (await response.json().catch(() => ({ message: "Unknown error" }))).message
errorMessage(response) ==
  IF response.bodyParses THEN response.message ELSE "Unknown error"

\* The outcome of the fetch: the body of the try block after the await.
makeRequest_response(s0, l, response) ==
  Only({ (
    LET request == s.loops[l].req
        n == s.obs.cur.attempts
        kind == IF response.threw THEN "threw"
                ELSE IF response.status = 429 THEN "429"
                ELSE IF ~ok(response.status) THEN "error"
                ELSE IF response.status # 204 /\ ~response.bodyParses
                     THEN "badjson" ELSE "success"
        seen == [s EXCEPT !.obs.mark = s.now,
                          !.obs.pruned = {},
                          !.obs.response =
                             <<[of |-> response,
                                endpoint |-> request.endpoint,
                                routeKey |-> getRouteKey(request.endpoint,
                                                         MethodOf(request.method))]>>,
                          !.obs.cur.lastKind = kind,
                          !.obs.cur.n429 = IF kind = "429" THEN @ + 1 ELSE @,
                          !.obs.cur.nThrew = IF kind = "threw" THEN @ + 1 ELSE @,
                          !.obs.gUntil =
                             IF response.status = 429 /\ response.globalHeader = "true"
                                /\ response.retryAfter # Absent
                             THEN Max(@, s.now + response.retryAfter * 1000) ELSE @]
        s1 == updateRateLimits(seen, request.endpoint, MethodOf(request.method),
                               response.quota)
    IN IF response.threw THEN makeRequest_catch(seen, l, FetchError(n))
       ELSE IF response.status = 429 THEN makeRequest_rateLimited(s1, l, response)
       ELSE IF ~ok(response.status)
            THEN makeRequest_catch(
                   s1, l, [DiscordAPIError(errorMessage(response), response.status,
                                           request.endpoint) EXCEPT !.n = n])
       ELSE IF response.status = 204 THEN processQueue_resolve(s1, l, JsNull)
       ELSE IF response.bodyParses THEN processQueue_resolve(s1, l, Body(n))
       ELSE makeRequest_catch(s1, l, SyntaxError(n))
    ) : s \in {s0} })

\* attempt++ and the next turn of the while loop, after either wait.
makeRequest_retry(s0, l) ==
  Only({ (
    makeRequest_attempt([s EXCEPT !.loops[l].attempt = @ + 1], l)
    ) : s \in {s0} })

\* processQueue(): returns at once when a loop runs or nothing is queued.
\* Otherwise a new activation of it runs: l, the first that is free.
processQueue_returnsAtOnce_noFlag(s0) ==
  Only({ (
    Len(s.requestQueue) = 0
    ) : s \in {s0} })

processQueue_returnsAtOnce(s0) ==
  Only({ (
    s.processingQueue \/ Len(s.requestQueue) = 0
    ) : s \in {s0} })

processQueue(s0) ==
  Only({ (
    IF processQueue_returnsAtOnce(s)
    THEN s
    ELSE LET l == CHOOSE x \in LoopIds :
                    /\ s.loops[x].pc = "idle"
                    /\ \A y \in LoopIds : s.loops[y].pc = "idle" => x <= y
         IN processQueue_loop([s EXCEPT !.processingQueue = TRUE], l)
    ) : s \in {s0} })

\* request(endpoint, options): queue the request and start the loop.
request(s0, endpoint, method) ==
  Only({ (
    LET id == s.obs.submitted + 1
        s1 == [s EXCEPT !.requestQueue =
                           Append(@, [id |-> id, endpoint |-> endpoint,
                                      method |-> method]),
                        !.obs.submitted = id,
                        !.obs.backlog = Max(@, Len(s.requestQueue) + 1)]
    IN processQueue(s1)
    ) : s \in {s0} })

(***************************************************************************)
(* The scheduler's events.                                                 *)
(***************************************************************************)
Sleeping == {"globalWait", "routeWait", "rateLimited", "backoff", "pause"}
Active(l) == loops[l].pc # "idle"
NextTimer(l) ==
  /\ loops[l].pc \in Sleeping
  /\ \A k \in LoopIds : loops[k].pc \in Sleeping => loops[l].wakeAt <= loops[k].wakeAt

InitRest ==
  /\ requestQueue = <<>>
  /\ processingQueue = FALSE
  /\ rateLimits = <<>>
  /\ globalRateLimit = <<>>
  /\ loops = [l \in LoopIds |-> IdleLoop]
  /\ obs = [submitted |-> 0,
            clicked |-> <<>>,
            dequeued |-> [i \in RequestIds |-> 0],
            resolves |-> [i \in RequestIds |-> 0],
            rejects |-> [i \in RequestIds |-> 0],
            started |-> <<>>,
            cur |-> NoCurrent,
            mark |-> 0,
            last |-> NoSettlement,
            backlog |-> 0,
            settledAt |-> 0 - InterRequestDelay,
            gUntil |-> 0,
            response |-> <<>>,
            pruned |-> {},
            keyed |-> <<>>]

\* Path segments: numeric ones, one without a digit, and ones that begin or
\* end with a digit; the methods as a caller may write them.
Segments ==
  { <<"1">>, <<"2">>, <<"1", "2">>, <<"c">>, <<"1", "a">>, <<"2", "a">>, <<"a", "1">> }
Methods == {"GET", "get", "POST"}

\* The endpoint "/" + segment + "/" + segment ...
RECURSIVE Path(_)
Path(segs) == IF segs = <<>> THEN <<>> ELSE <<"/">> \o Head(segs) \o Path(Tail(segs))

RECURSIVE Paths(_)
Paths(n) ==
  IF n = 0 THEN {<<>>}
  ELSE Paths(n - 1) \cup { Append(p, seg) : p \in Paths(n - 1), seg \in Segments }

\* getRouteKey is called for two endpoints, each with a method; one pair is
\* looked at in a behaviour.
GetRouteKey(a, methodA, b, methodB) ==
  /\ obs.keyed = <<>>
  /\ a # <<>> /\ b # <<>>
  /\ obs' = [obs EXCEPT !.keyed =
               <<[segments |-> a, method |-> methodA,
                  key |-> getRouteKey(Path(a), methodA)],
                 [segments |-> b, method |-> methodB,
                  key |-> getRouteKey(Path(b), methodB)]>>]
  /\ UNCHANGED <<requestQueue, processingQueue, rateLimits, globalRateLimit, loops>>
  /\ UNCHANGED gatewayVars

\* A caller calls request(); while no loop runs, time may have passed.
Request(endpoint, method, dt, cap) ==
  /\ obs.submitted < cap
  /\ dt = 0 \/ \A l \in LoopIds : ~Active(l)
  /\ Install(request([Here EXCEPT !.now = dt], endpoint, method))

\* A timer of sleep() fires and the activation goes on where it waited.
Wake(l) ==
  /\ NextTimer(l)
  /\ LET s == [Here EXCEPT !.now = loops[l].wakeAt, !.obs.last = NoSettlement,
                           !.obs.response = <<>>, !.obs.pruned = {}]
         pc == loops[l].pc
     IN Install(
          CASE pc = "globalWait" ->
                 processQueue_shift([s EXCEPT !.globalRateLimit = <<>>], l)
            [] pc = "routeWait" -> makeRequest(s, l)
            [] pc = "pause" -> processQueue_loop(s, l)
            [] OTHER -> makeRequest_retry(s, l))

\* The fetch of an activation ends: a response, or a network failure.
Respond(l, outcomes) ==
  /\ loops[l].pc = "fetch"
  /\ \A k \in LoopIds : loops[k].pc \in Sleeping => HttpLatency <= loops[k].wakeAt
  /\ \E response \in outcomes :
       Install(makeRequest_response(
                 [Here EXCEPT !.now = HttpLatency, !.obs.last = NoSettlement],
                 l, response))

(***************************************************************************)
(* DiscordWebSocket.  A handler is one action.  The sockets are those of   *)
(* the ws library: CONNECTING, OPEN, CLOSING, CLOSED; a socket emits close *)
(* once, with the code the peer or the library gives.                      *)
(***************************************************************************)
JsNone == "null"
CloseCodes == {CleanClose, 1006}
Event(name, code) == [name |-> name, code |-> code, reason |-> JsNone]
Gateways == 1..Len(ws)

\* Inbound frames: op, s (0 when the frame has none), t, and of d the
\* heartbeat_interval (0 when it has none).  The last two are not of the
\* shape expected: a Hello without d, and data that is not JSON.
Frame(op, s, t, d, shape) == [op |-> op, s |-> s, t |-> t, d |-> d, shape |-> shape]
Frames ==
  { Frame(10, 0, JsNone, 45000, "ok"),
    Frame(11, 0, JsNone, 0, "ok"),
    Frame(0, 1, "READY", 0, "ok"),
    Frame(0, 2, "MESSAGE_CREATE", 0, "ok"),
    Frame(0, 2, "GUILD_CREATE", 1, "ok"),
    Frame(0, 2, "CHANNEL_CREATE", 1, "ok"),
    Frame(0, 2, "TYPING_START", 0, "ok"),
    Frame(7, 0, JsNone, 0, "ok"),
    Frame(10, 0, JsNone, 0, "no d"),
    Frame(0 - 1, 0, JsNone, 0, "not JSON") }

NoObservation ==
  [scheduled |-> <<>>, abnormal |-> 0, exhausted |-> 0, frames |-> 0,
   connects |-> 0, timers |-> 0, emitted |-> <<>>, sent |-> <<>>,
   stopped |-> FALSE, auto |-> 0, hello |-> {}, lastSeq |-> <<>>, heard |-> <<>>,
   got |-> <<>>]

\* new Client(): no token, no connection, no listener.
NewClient ==
  [token |-> FALSE, ws |-> 0, sessionId |-> JsNone, listening |-> FALSE,
   guilds |-> {}, channels |-> {}]

\* A DiscordWebSocket as its constructor leaves it, held by its maker; the
\* client it was given listens for "error".
InitGateway ==
  /\ client = [NewClient EXCEPT !.listening = TRUE]
  /\ ws = <<0>>
  /\ sockets = <<>>
  /\ heartbeatInterval = <<0>>
  /\ intervals = {}
  /\ sequence = <<0>>
  /\ sessionId = <<JsNone>>
  /\ ready = <<FALSE>>
  /\ reconnectAttempts = <<0>>
  /\ timeouts = {}
  /\ gobs = [NoObservation EXCEPT !.lastSeq = <<0>>]

\* A Client as its constructor leaves it.
InitClient ==
  /\ client = NewClient
  /\ ws = <<>>
  /\ sockets = <<>>
  /\ heartbeatInterval = <<>>
  /\ intervals = {}
  /\ sequence = <<>>
  /\ sessionId = <<>>
  /\ ready = <<>>
  /\ reconnectAttempts = <<>>
  /\ timeouts = {}
  /\ gobs = NoObservation

\* new WebSocket(url): connecting; the close code and reason are those the
\* library holds until a close frame brings others.
Socket(g) ==
  [readyState |-> "CONNECTING", of |-> g, closeCode |-> 1006, closeReason |-> ""]

\* WebSocket.close(): a socket that is connecting or open starts to close.
wsClose(socks, k) ==
  IF k # 0 /\ socks[k].readyState \in {"CONNECTING", "OPEN"}
  THEN [socks EXCEPT ![k].readyState = "CLOSING"] ELSE socks

\* connect(): close the socket at hand, make a new one.
connect(g) ==
  /\ sockets' = Append(wsClose(sockets, ws[g]), Socket(g))
  /\ ws' = [ws EXCEPT ![g] = Len(sockets) + 1]

reconnectDelay_beforeIncrement(attempts) ==
  Min(ReconnectBase * Pow2(attempts - 1), ReconnectCap)

\* Math.min(1000 * Math.pow(2, this.reconnectAttempts), 30000)
reconnectDelay(attempts) == Min(ReconnectBase * Pow2(attempts), ReconnectCap)

reconnect_withoutTimer(g, emittedSoFar) ==
  /\ reconnectAttempts' = [reconnectAttempts EXCEPT ![g] = Min(@ + 1, maxReconnectAttempts)]
  /\ gobs' = [gobs EXCEPT !.heard = <<>>, !.emitted = emittedSoFar, !.sent = <<>>,
                          !.abnormal = Min(@ + 1, maxReconnectAttempts + 2)]
  /\ UNCHANGED timeouts

\* What a handler lets out ends with Thrown when it ends by an exception.
Thrown == Event("(thrown)", 0)

\* client.emit("error", err) and what follows it in the handler: an
\* EventEmitter with no "error" listener throws err instead.
emitError(then) ==
  IF client.listening THEN <<Event("error", 0)>> \o then ELSE <<Thrown>>

\* reconnect(), after the events already emitted by its caller.
reconnect(g, emittedSoFar) ==
  IF reconnectAttempts[g] >= maxReconnectAttempts
  THEN /\ gobs' = [gobs EXCEPT
                     !.heard = <<>>, !.emitted = emittedSoFar \o emitError(<<Event("maxReconnects", 0)>>),
                     !.sent = <<>>,
                     !.abnormal = Min(@ + 1, maxReconnectAttempts + 2),
                     !.exhausted = Min(@ + 1, 2)]
       /\ UNCHANGED <<reconnectAttempts, timeouts>>
  ELSE /\ reconnectAttempts' = [reconnectAttempts EXCEPT ![g] = @ + 1]
       /\ timeouts' = timeouts \cup
             {[id |-> gobs.timers + 1, of |-> g,
               delay |-> reconnectDelay(reconnectAttempts'[g])]}
       /\ gobs' = [gobs EXCEPT
                     !.heard = <<>>, !.emitted = emittedSoFar,
                     !.sent = <<>>,
                     !.abnormal = Min(@ + 1, maxReconnectAttempts + 2),
                     !.timers = @ + 1,
                     !.scheduled = Append(@, reconnectDelay(reconnectAttempts'[g]))]

\* The caller calls connect(), at most so many times.
ConnectWithin(g, calls) ==
  /\ gobs.connects < calls
  /\ connect(g)
  /\ gobs' = [gobs EXCEPT !.heard = <<>>, !.emitted = <<>>, !.sent = <<>>, !.connects = @ + 1,
                          !.stopped = FALSE]
  /\ UNCHANGED <<client, heartbeatInterval, intervals, sequence, sessionId, ready,
                 reconnectAttempts, timeouts>>
  /\ UNCHANGED restVars

\* The caller calls connect().
Connect(g) == ConnectWithin(g, MaxConnects)

\* disconnect(): close the socket at hand with code 1000.
disconnect(g) == sockets' = wsClose(sockets, ws[g])

Disconnect_dropsQueue(g) ==
  /\ ws[g] # 0
  /\ sockets[ws[g]].readyState \in {"CONNECTING", "OPEN"} \/ ~gobs.stopped
  /\ disconnect(g)
  /\ gobs' = [gobs EXCEPT !.heard = <<>>, !.emitted = <<>>, !.sent = <<>>, !.stopped = TRUE]
  /\ requestQueue' = <<>>
  /\ UNCHANGED <<client, ws, heartbeatInterval, intervals, sequence, sessionId, ready,
                 reconnectAttempts, timeouts>>
  /\ UNCHANGED <<processingQueue, rateLimits, globalRateLimit, loops, obs>>

\* The caller calls disconnect(); a call that closes nothing is taken once.
Disconnect(g) ==
  /\ ws[g] # 0
  /\ sockets[ws[g]].readyState \in {"CONNECTING", "OPEN"} \/ ~gobs.stopped
  /\ disconnect(g)
  /\ gobs' = [gobs EXCEPT !.heard = <<>>, !.emitted = <<>>, !.sent = <<>>, !.stopped = TRUE]
  /\ UNCHANGED <<client, ws, heartbeatInterval, intervals, sequence, sessionId, ready,
                 reconnectAttempts, timeouts>>
  /\ UNCHANGED restVars

\* ws.on("open")
SocketOpen(k) ==
  /\ sockets[k].readyState = "CONNECTING"
  /\ sockets' = [sockets EXCEPT ![k].readyState = "OPEN"]
  /\ gobs' = [gobs EXCEPT !.heard = <<>>, !.emitted = <<Event("connected", 0)>>, !.sent = <<>>]
  /\ UNCHANGED <<client, ws, heartbeatInterval, intervals, sequence, sessionId, ready,
                 reconnectAttempts, timeouts>>
  /\ UNCHANGED restVars

\* ws.on("error"): the ws library puts the socket to closing, then emits.
SocketError(k) ==
  /\ sockets[k].readyState \in {"CONNECTING", "OPEN"}
  /\ sockets' = [sockets EXCEPT ![k].readyState = "CLOSING"]
  /\ gobs' = [gobs EXCEPT !.heard = <<>>, !.emitted = emitError(<<>>), !.sent = <<>>]
  /\ UNCHANGED <<client, ws, heartbeatInterval, intervals, sequence, sessionId, ready,
                 reconnectAttempts, timeouts>>
  /\ UNCHANGED restVars

\* Client.connect() with the token set: a new DiscordWebSocket, and its
\* connect(); the one held before is let go as it is.
clientConnect ==
  /\ Len(ws) < MaxGateways
  /\ ws' = Append(ws, Len(sockets) + 1)
  /\ sockets' = Append(sockets, Socket(Len(ws) + 1))
  /\ heartbeatInterval' = Append(heartbeatInterval, 0)
  /\ sequence' = Append(sequence, 0)
  /\ sessionId' = Append(sessionId, JsNone)
  /\ ready' = Append(ready, FALSE)
  /\ reconnectAttempts' = Append(reconnectAttempts, 0)
  /\ gobs' = [gobs EXCEPT !.heard = <<>>, !.emitted = <<>>, !.sent = <<>>, !.stopped = FALSE,
                          !.lastSeq = Append(@, 0)]
  /\ UNCHANGED <<intervals, timeouts>>
  /\ UNCHANGED restVars

\* Client.login(token): the RestManager it makes is as InitRest leaves it.
\* Client.connect() awaits nothing and DiscordWebSocket.connect() returns at
\* once, so the promise of login() is resolved in the same turn, before any
\* event of the socket.
ClientLogin ==
  /\ clientConnect
  /\ client' = [client EXCEPT !.token = TRUE, !.ws = Len(ws) + 1]

\* Client.connect(); without a token it throws and changes nothing.
ClientConnect ==
  /\ client.token
  /\ clientConnect
  /\ client' = [client EXCEPT !.ws = Len(ws) + 1]

\* Client.disconnect(); a call that closes nothing is taken once.
ClientDisconnect ==
  /\ client.ws # 0
  /\ sockets[ws[client.ws]].readyState \in {"CONNECTING", "OPEN"} \/ ~gobs.stopped
  /\ disconnect(client.ws)
  /\ gobs' = [gobs EXCEPT !.heard = <<>>, !.emitted = <<>>, !.sent = <<>>, !.stopped = TRUE]
  /\ UNCHANGED <<client, ws, heartbeatInterval, intervals, sequence, sessionId, ready,
                 reconnectAttempts, timeouts>>
  /\ UNCHANGED restVars

\* Client.destroy(): disconnect(), removeAllListeners().
ClientDestroy ==
  /\ client.listening
  /\ IF client.ws # 0 THEN disconnect(client.ws) ELSE UNCHANGED sockets
  /\ client' = [client EXCEPT !.listening = FALSE]
  /\ gobs' = [gobs EXCEPT !.heard = <<>>, !.emitted = <<>>, !.sent = <<>>, !.stopped = TRUE]
  /\ UNCHANGED <<ws, heartbeatInterval, intervals, sequence, sessionId, ready,
                 reconnectAttempts, timeouts>>
  /\ UNCHANGED restVars

\* The channel ids a caller asks for: one that the gateway announces, one that
\* it does not.
ChannelIds == {1, 2}

\* Client.getChannel(id): a channel that is not cached is made from the id and
\* cached; the cached one is returned.
ClientGetChannel(id) ==
  /\ client' = [client EXCEPT !.channels = @ \cup {id}]
  /\ gobs' = [gobs EXCEPT !.heard = <<>>, !.emitted = <<>>, !.sent = <<>>,
                          !.got = <<[id |-> id, channel |-> id]>>]
  /\ UNCHANGED <<ws, sockets, heartbeatInterval, intervals, sequence, sessionId, ready,
                 reconnectAttempts, timeouts>>
  /\ UNCHANGED restVars

\* A message's data: components is <<>> when the field is missing, else the
\* one list of its rows; a row is the list of its components, each with its
\* type and its custom_id ("" when it has none).
Component(type, custom_id) == [type |-> type, custom_id |-> custom_id]
Messages ==
  { [components |-> <<>>],
    [components |-> << << <<Component(2, ""), Component(3, "menu")>> >> >>],
    [components |-> << << <<Component(2, "yes"), Component(3, "menu")>>,
                          <<Component(2, "no")>> >> >>] }

\* What clickButton may be given: null, a number, a string, something else.
Input(type, n, s) == [type |-> type, n |-> n, s |-> s]
ClickInputs ==
  { Input("null", 0, ""), Input("string", 0, "other"), Input("boolean", 0, "") }
  \cup { Input("number", n, "") : n \in -1..MaxClicks }

RECURSIVE Flatten(_)
Flatten(rows) == IF rows = <<>> THEN <<>> ELSE Head(rows) \o Flatten(Tail(rows))

\* clickButton, the buttons of the message: components of type 2 that have a
\* custom_id, row by row.
Buttons(message) ==
  IF message.components = <<>> THEN <<>>
  ELSE SelectSeq(Flatten(message.components[1]),
                 LAMBDA c : c.type = 2 /\ c.custom_id # "")

Rejected(error) == [error |-> error, customId |-> ""]
Picked(customId) == [error |-> "", customId |-> customId]

\* clickButton, up to the custom id: the error thrown, or the id chosen.
clickButton_customId(message, input) ==
  LET buttons == Buttons(message) IN
  IF Len(buttons) = 0 THEN Rejected("No buttons found in message")
  ELSE IF input.type = "null" THEN Picked(buttons[1].custom_id)
  ELSE IF input.type = "number"
       THEN IF input.n < 0 \/ input.n >= Len(buttons)
            THEN Rejected("Button index out of range")
            ELSE Picked(buttons[input.n + 1].custom_id)
  ELSE IF input.type = "string" THEN Picked(input.s)
  ELSE Rejected("Invalid input type")

hasSession_always(id) == TRUE

\* !this.client.sessionId is false
hasSession(id) == id # JsNone

\* The endpoint of an interaction.
Interactions == <<"/", "i", "n", "t", "e", "r", "a", "c", "t", "i", "o", "n", "s">>

\* message.clickButton(input) of a message of the client: an Error or a
\* WebSocketError is thrown, or rest.clickButton() calls request() with POST
\* /interactions.  The body of the request is not kept by the scheduler's
\* model; the observer keeps the custom id and the session id that go in it.
MessageClickButton(message, input) ==
  LET picked == clickButton_customId(message, input)
      n == IF obs.clicked = <<>> THEN 1 ELSE obs.clicked[1].n + 1
      error == IF picked.error # "" THEN picked.error
               ELSE IF ~hasSession(client.sessionId)
                    THEN "No session ID available" ELSE ""
      seen == <<[n |-> n, message |-> message, input |-> input, error |-> error,
                 customId |-> picked.customId, sessionId |-> client.sessionId]>>
  IN
  /\ n <= MaxClicks
  /\ IF error = ""
     THEN Install(request([Here EXCEPT !.obs.clicked = seen], Interactions, "POST"))
     ELSE /\ obs' = [obs EXCEPT !.clicked = seen]
          /\ UNCHANGED <<requestQueue, processingQueue, rateLimits, globalRateLimit, loops>>
          /\ UNCHANGED gatewayVars

\* client.on("error", listener)
ClientOnError ==
  /\ ~client.listening
  /\ client' = [client EXCEPT !.listening = TRUE]
  /\ gobs' = [gobs EXCEPT !.heard = <<>>, !.emitted = <<>>, !.sent = <<>>]
  /\ UNCHANGED <<ws, sockets, heartbeatInterval, intervals, sequence, sessionId, ready,
                 reconnectAttempts, timeouts>>
  /\ UNCHANGED restVars

\* The reason the library reports with a close code.
reasonOf(code) == IF code = CleanClose THEN "Client disconnect" ELSE ""

onClose_event_codeOnly(code, reason) == Event("disconnected", code)

\* this.client.emit("disconnected", code, reason)
onClose_event(code, reason) == [Event("disconnected", code) EXCEPT !.reason = reason]

notClean_any(code) == TRUE

\* code !== 1000
notClean(code) == code # CleanClose

\* ws.on("close"), of any socket that connect() made.
SocketClose(k, code) ==
  LET g == sockets[k].of IN
  /\ sockets[k].readyState # "CLOSED"
  /\ sockets' = [sockets EXCEPT ![k].readyState = "CLOSED", ![k].closeCode = code,
                                ![k].closeReason = reasonOf(code)]
  /\ ready' = [ready EXCEPT ![g] = FALSE]
  /\ intervals' = { timer \in intervals : timer.id # heartbeatInterval[g] }
  /\ heartbeatInterval' = [heartbeatInterval EXCEPT ![g] = 0]
  /\ IF notClean(code)
     THEN reconnect(g, <<onClose_event(code, reasonOf(code))>>)
     ELSE /\ gobs' = [gobs EXCEPT !.heard = <<>>,
                                  !.emitted = <<onClose_event(code, reasonOf(code))>>,
                                  !.sent = <<>>]
          /\ UNCHANGED <<reconnectAttempts, timeouts>>
  /\ UNCHANGED <<client, ws, sequence, sessionId>>
  /\ UNCHANGED restVars

\* The setTimeout of reconnect() fires: connect().
ReconnectTimer(timer) ==
  /\ timer \in timeouts
  /\ connect(timer.of)
  /\ timeouts' = timeouts \ {timer}
  /\ gobs' = [gobs EXCEPT !.heard = <<>>, !.emitted = <<>>, !.sent = <<>>, !.auto = @ + 1]
  /\ UNCHANGED <<client, heartbeatInterval, intervals, sequence, sessionId, ready,
                 reconnectAttempts>>
  /\ UNCHANGED restVars

\* send(payload): only on an open socket.
send(g, payload) ==
  IF ws[g] # 0 /\ sockets[ws[g]].readyState = "OPEN"
  THEN <<[payload EXCEPT !.on = ws[g]]>> ELSE <<>>

\* The sequence numbers seen, after a frame.
Seen(last, g, frame) == IF frame.s # 0 THEN [last EXCEPT ![g] = frame.s] ELSE last

\* The frame a message handler was given, and the socket it came on.
Heard(k, frame) == <<[on |-> k, frame |-> frame]>>

handleDispatch_event_raw(t) == "dispatch"

\* handleDispatch: the client event of a dispatch frame, by its type.
handleDispatch_event(t) ==
  CASE t = "READY" -> "ready"
    [] t = "MESSAGE_CREATE" -> "messageCreate"
    [] t = "GUILD_CREATE" -> "guildCreate"
    [] t = "CHANNEL_CREATE" -> "channelCreate"
    [] OTHER -> "dispatch"

handleMessage_default_forwards(frame) == <<Event("dispatch", 0)>>

\* handleMessage, default arm of the switch: the op is logged, nothing is emitted.
handleMessage_default(frame) == <<>>

\* ws.on("message"): handleMessage and handleDispatch.
SocketMessage(k, frame) ==
  LET g == sockets[k].of IN
  /\ sockets[k].readyState = "OPEN"
  /\ gobs.frames < MaxFrames
  /\ sequence' = IF frame.shape = "not JSON" THEN sequence
                  ELSE [sequence EXCEPT ![g] = frame.s]
  /\ CASE frame.shape = "not JSON" \/ (frame.op = 10 /\ frame.shape = "no d") ->
            \* JSON.parse throws; message.d.heartbeat_interval throws
            /\ gobs' = [gobs EXCEPT !.frames = @ + 1, !.lastSeq = Seen(@, g, frame),
                                    !.heard = Heard(k, frame), !.emitted = <<Thrown>>, !.sent = <<>>]
            /\ UNCHANGED <<client, heartbeatInterval, intervals, sessionId, ready>>
       [] frame.op = 10 /\ frame.shape = "ok" ->
            /\ heartbeatInterval' = [heartbeatInterval EXCEPT ![g] = gobs.timers + 1]
            /\ intervals' = intervals \cup
                  {[id |-> gobs.timers + 1, of |-> g, on |-> k, every |-> frame.d]}
            /\ gobs' = [gobs EXCEPT !.frames = @ + 1, !.lastSeq = Seen(@, g, frame), !.timers = @ + 1,
                                    !.heard = Heard(k, frame), !.emitted = <<>>, !.hello = @ \cup {k},
                                    !.sent = send(g, [op |-> 2, d |-> 0, on |-> 0])]
            /\ UNCHANGED <<client, sessionId, ready>>
       [] frame.op = 0 /\ frame.t = "READY" ->
            /\ sessionId' = [sessionId EXCEPT ![g] = "session"]
            /\ client' = [client EXCEPT !.sessionId = "session"]
            /\ ready' = [ready EXCEPT ![g] = TRUE]
            /\ gobs' = [gobs EXCEPT !.frames = @ + 1, !.lastSeq = Seen(@, g, frame),
                                    !.heard = Heard(k, frame),
                                    !.emitted = <<Event(handleDispatch_event(frame.t), 0)>>,
                                    !.sent = <<>>]
            /\ UNCHANGED <<heartbeatInterval, intervals>>
       [] frame.op = 0 /\ frame.t # "READY" ->
            /\ gobs' = [gobs EXCEPT
                          !.frames = @ + 1, !.lastSeq = Seen(@, g, frame),
                          !.heard = Heard(k, frame),
                          !.emitted = <<Event(handleDispatch_event(frame.t), 0)>>,
                          !.sent = <<>>]
            /\ client' = [client EXCEPT
                            !.guilds = IF frame.t = "GUILD_CREATE"
                                       THEN @ \cup {frame.d} ELSE @,
                            !.channels = IF frame.t = "CHANNEL_CREATE"
                                         THEN @ \cup {frame.d} ELSE @]
            /\ UNCHANGED <<heartbeatInterval, intervals, sessionId, ready>>
       [] OTHER ->
            /\ gobs' = [gobs EXCEPT !.frames = @ + 1, !.lastSeq = Seen(@, g, frame),
                                    !.heard = Heard(k, frame),
                                    !.emitted = handleMessage_default(frame),
                                    !.sent = <<>>]
            /\ UNCHANGED <<client, heartbeatInterval, intervals, sessionId, ready>>
  /\ UNCHANGED <<ws, sockets, reconnectAttempts, timeouts>>
  /\ UNCHANGED restVars

\* A setInterval timer of startHeartbeat ticks.
HeartbeatTick(timer) ==
  /\ timer \in intervals
  /\ gobs' = [gobs EXCEPT !.heard = <<>>, !.emitted = <<>>,
                          !.sent = send(timer.of, [op |-> 1, d |-> sequence[timer.of],
                                                   on |-> 0])]
  /\ gobs'.sent # gobs.sent
  /\ UNCHANGED <<client, ws, sockets, heartbeatInterval, intervals, sequence, sessionId,
                 ready, reconnectAttempts, timeouts>>
  /\ UNCHANGED restVars

Init == InitRest /\ InitGateway
InitOfClient == InitRest /\ InitClient

NextRest ==
  \/ \E e \in Endpoints, m \in RequestMethods, dt \in {0, IdleGap} :
        Request(e, m, dt, MaxRequests)
  \/ \E l \in LoopIds : Wake(l)
  \/ \E l \in LoopIds : Respond(l, Responses(HttpLatency))

\* More requests, fewer kinds of outcome: for what the queue does.
NextQueue ==
  \/ \E e \in Endpoints, m \in RequestMethods, dt \in {0, IdleGap} :
        Request(e, m, dt, MaxQueued)
  \/ \E l \in LoopIds : Wake(l)
  \/ \E l \in LoopIds : Respond(l, BasicResponses(HttpLatency))

\* The same with fewer requests: for what happens in the end.
NextAwaited ==
  \/ \E e \in Endpoints, m \in RequestMethods, dt \in {0, IdleGap} :
        Request(e, m, dt, MaxAwaited)
  \/ \E l \in LoopIds : Wake(l)
  \/ \E l \in LoopIds : Respond(l, BasicResponses(HttpLatency))

NextGateway ==
  \/ \E g \in Gateways : Connect(g)
  \/ \E g \in Gateways : Disconnect(g)
  \/ \E k \in 1..Len(sockets) : SocketOpen(k)
  \/ \E k \in 1..Len(sockets), code \in CloseCodes : SocketClose(k, code)
  \/ \E timer \in timeouts : ReconnectTimer(timer)
  \/ \E k \in 1..Len(sockets), frame \in Frames : SocketMessage(k, frame)
  \/ \E timer \in intervals : HeartbeatTick(timer)
  \/ \E k \in 1..Len(sockets) : SocketError(k)

\* The same with fewer frames: for what the reconnect timers do in the end.
NextReconnecting ==
  \/ \E g \in Gateways : Connect(g)
  \/ \E g \in Gateways : Disconnect(g)
  \/ \E k \in 1..Len(sockets) : SocketOpen(k)
  \/ \E k \in 1..Len(sockets), code \in CloseCodes : SocketClose(k, code)
  \/ \E timer \in timeouts : ReconnectTimer(timer)
  \/ \E k \in 1..Len(sockets), frame \in Frames :
        gobs.frames < MaxHeard /\ SocketMessage(k, frame)
  \/ \E timer \in intervals : HeartbeatTick(timer)
  \/ \E k \in 1..Len(sockets) : SocketError(k)

\* The frames of the handshake: Hello and READY.
Handshake == { frame \in Frames : frame.shape = "ok" /\ (frame.op = 10 \/ frame.t = "READY") }

\* A connection whose caller calls connect() again, over the socket at hand.
NextSupersede ==
  \/ \E g \in Gateways : ConnectWithin(g, MaxAgain)
  \/ \E k \in 1..Len(sockets) : SocketOpen(k)
  \/ \E k \in 1..Len(sockets), code \in CloseCodes : SocketClose(k, code)
  \/ \E timer \in timeouts : ReconnectTimer(timer)
  \/ \E k \in 1..Len(sockets), frame \in Handshake : SocketMessage(k, frame)
  \/ \E timer \in intervals : HeartbeatTick(timer)

\* What the API answers to an interaction that it takes: 204, no body.
InteractionResponses == { Response(204, NoQuota, FALSE, Absent, "null") }

\* A client whose caller clicks the buttons of messages.
NextClick ==
  \/ \E g \in Gateways : Connect(g)
  \/ \E k \in 1..Len(sockets) : SocketOpen(k)
  \/ \E k \in 1..Len(sockets), frame \in Handshake : SocketMessage(k, frame)
  \/ \E message \in Messages, input \in ClickInputs : MessageClickButton(message, input)
  \/ \E l \in LoopIds : Wake(l)
  \/ \E l \in LoopIds : Respond(l, InteractionResponses)

\* A Client and the DiscordWebSockets it makes.
NextClient ==
  \/ ClientLogin
  \/ ClientConnect
  \/ ClientDisconnect
  \/ ClientDestroy
  \/ ClientOnError
  \/ \E k \in 1..Len(sockets) : SocketOpen(k)
  \/ \E k \in 1..Len(sockets) :
        \E code \in IF gobs.abnormal < MaxFailures THEN CloseCodes ELSE {CleanClose} :
           SocketClose(k, code)
  \/ \E k \in 1..Len(sockets) : SocketError(k)
  \/ \E timer \in timeouts : ReconnectTimer(timer)
  \/ \E k \in 1..Len(sockets), frame \in Frames : SocketMessage(k, frame)
  \/ \E timer \in intervals : HeartbeatTick(timer)

\* The scheduler at work while the connection is made, lost and given up.
NextTogether ==
  \/ \E e \in Endpoints, m \in RequestMethods : Request(e, m, 0, MaxTogether)
  \/ \E l \in LoopIds : Wake(l)
  \/ \E l \in LoopIds : Respond(l, BasicResponses(HttpLatency))
  \/ \E g \in Gateways : ws[g] = 0 /\ Connect(g)
  \/ \E g \in Gateways : Disconnect(g)
  \/ \E k \in 1..Len(sockets) : SocketOpen(k)
  \/ \E k \in 1..Len(sockets), code \in CloseCodes : SocketClose(k, code)
  \/ \E timer \in timeouts : ReconnectTimer(timer)

\* getRouteKey alone, on pairs of endpoints.
NextRouteKey ==
  /\ obs.keyed = <<>>
  /\ \E a \in Paths(MaxSegments), b \in Paths(MaxSegments), methodA \in Methods,
        methodB \in Methods : GetRouteKey(a, methodA, b, methodB)

\* A client's channel cache: filled by the gateway, read by the caller.
NextCache ==
  \/ ClientLogin
  \/ \E k \in 1..Len(sockets) : SocketOpen(k)
  \/ \E k \in 1..Len(sockets), frame \in Frames : SocketMessage(k, frame)
  \/ \E id \in ChannelIds : ClientGetChannel(id)

vars == <<restVars, gatewayVars>>
Spec == Init /\ [][NextRest]_vars
QueueSpec == Init /\ [][NextQueue]_vars
GatewaySpec == Init /\ [][NextGateway]_vars
ClientSpec == InitOfClient /\ [][NextClient]_vars
TogetherSpec == Init /\ [][NextTogether]_vars
RouteKeySpec == Init /\ [][NextRouteKey]_vars
CacheSpec == InitOfClient /\ [][NextCache]_vars
SupersedeSpec == Init /\ [][NextSupersede]_vars
ClickSpec == Init /\ [][NextClick]_vars

\* Fairness: a timer that is due fires, and a fetch ends.
\* Fairness: a reconnect timer fires.
FairGatewaySpec ==
  /\ Init /\ [][NextReconnecting]_vars
  /\ WF_vars(\E timer \in timeouts : ReconnectTimer(timer))

FairQueueSpec ==
  /\ Init /\ [][NextAwaited]_vars
  /\ WF_vars(\E l \in LoopIds : Wake(l))
  /\ WF_vars(\E l \in LoopIds : Respond(l, BasicResponses(HttpLatency)))

(***************************************************************************)
(* What the properties speak of.                                           *)
(***************************************************************************)
Settled(i) == obs.resolves[i] + obs.rejects[i]
InFlight == { l \in LoopIds : loops[l].pc = "fetch" }
Handling(i) ==
  \E l \in LoopIds : /\ loops[l].req.id = i
                     /\ loops[l].pc \in {"routeWait", "fetch", "rateLimited", "backoff"}
Queued(i) == \E k \in 1..Len(requestQueue) : requestQueue[k].id = i
\* The attempts of the current request whose outcome is known.
Completed(c) == IF c.lastKind = "pending" THEN c.attempts - 1 ELSE c.attempts

(***************************************************************************)
(* C1. Requests have their first HTTP attempt in the order in which they   *)
(* were submitted: ids are given in the order of the request() calls, and  *)
(* the i-th request to start is request i.                                 *)
(***************************************************************************)
C1_FifoStart ==
  \A i \in 1..Len(obs.started) : obs.started[i] = i

\* Two requests waited in the queue together, and all three have started.
C1_Witness ==
  /\ obs.backlog >= 2
  /\ Len(obs.started) >= 3

(***************************************************************************)
(* C2. At most one fetch is in flight and at most one activation of        *)
(* processQueue is running; while a request has an attempt in flight,      *)
(* every request that started before it has been resolved or rejected.     *)
(***************************************************************************)
C2_SingleFlight ==
  /\ Cardinality(InFlight) <= 1
  /\ Cardinality({ l \in LoopIds : Active(l) }) <= 1
  /\ \A l \in InFlight :
       \A k \in 1..Len(obs.started) :
          obs.started[k] # loops[l].req.id => Settled(obs.started[k]) >= 1

\* A retry is in flight for the second request while a third waits.
C2_Witness ==
  /\ \E l \in InFlight : loops[l].req.id = 2 /\ loops[l].attempt >= 1
  /\ Len(requestQueue) >= 1
  /\ Settled(1) = 1

(***************************************************************************)
(* C3. A request dequeued while its route's bucket has remaining <= 0 and  *)
(* a reset time still ahead has its first attempt exactly when the reset   *)
(* time is reached; with any other bucket, or none, it starts at once.     *)
(***************************************************************************)
C3_Blocked(c) ==
  /\ c.seen # <<>>
  /\ c.seen[1].remaining <= 0
  /\ c.seen[1].resetIn > 0

C3_RouteGate ==
  LET c == obs.cur IN
  /\ c.attempts = 1 => c.waited = IF C3_Blocked(c) THEN c.seen[1].resetIn ELSE 0
  /\ \A l \in LoopIds : loops[l].pc = "routeWait" => C3_Blocked(c)

\* A first attempt that began after the wait for the bucket's reset.
C3_Witness ==
  /\ obs.cur.attempts = 1
  /\ obs.cur.lastKind = "pending"
  /\ C3_Blocked(obs.cur)
  /\ obs.cur.waited > 0

(***************************************************************************)
(* C4. No HTTP attempt, of any request, starts before the end of the       *)
(* window of a global 429: obs.gUntil is the latest t + D of the global    *)
(* 429 responses received, and while an attempt is in flight it is not     *)
(* ahead of the present.                                                   *)
(***************************************************************************)
C4_GlobalWindow ==
  \A l \in InFlight : obs.gUntil <= 0

\* The retry after a global 429, in flight with another request queued.
C4_Witness ==
  /\ InFlight # {}
  /\ obs.cur.n429 >= 1
  /\ globalRateLimit # <<>>
  /\ obs.gUntil = 0
  /\ Len(requestQueue) >= 1

(***************************************************************************)
(* C5. A request whose attempts all fail at network level has exactly      *)
(* three: the second starts 1000 ms after the first failure, the third     *)
(* 2000 ms after the second, and the third failure's error rejects it.     *)
(***************************************************************************)
C5_NetworkRetries ==
  LET c == obs.cur
      d == obs.last
  IN /\ (c.nThrew = Completed(c) /\ c.lastKind = "pending") =>
          /\ c.attempts <= 3
          /\ c.attempts = 2 => c.waited = 1000
          /\ c.attempts = 3 => c.waited = 2000
     /\ (d.id # 0 /\ d.of.nThrew = d.of.attempts) =>
          /\ d.of.attempts = 3
          /\ d.how = "reject"
          /\ d.val = FetchError(3)
     /\ (c.nThrew = c.attempts /\ c.attempts >= 3) => Settled(c.id) = 1

\* Rejected after three network failures.
C5_Witness ==
  /\ obs.last.how = "reject"
  /\ obs.last.of.nThrew = 3
  /\ obs.last.of.attempts = 3

(***************************************************************************)
(* C6. A response with a non-success status other than 429 rejects the     *)
(* request at once: no backoff wait follows it, and no further attempt.    *)
(***************************************************************************)
C6_ErrorStatusNotRetried ==
  /\ \A l \in LoopIds :
       loops[l].pc = "backoff" => obs.cur.lastKind # "error"
  /\ obs.cur.lastKind = "error" => obs.rejects[obs.cur.id] = 1

(***************************************************************************)
(* C7. A 429 uses up none of the three attempts: while an attempt is in    *)
(* flight the attempt counter is the number of earlier attempts that were  *)
(* not answered by a 429, and no request is settled on a 429.              *)
(***************************************************************************)
C7_RateLimitKeepsBudget ==
  /\ \A l \in InFlight :
       loops[l].attempt = obs.cur.attempts - 1 - obs.cur.n429
  /\ obs.last.id # 0 => obs.last.of.lastKind # "429"

(***************************************************************************)
(* C8. Every submitted request is in the end resolved or rejected.         *)
(***************************************************************************)
C8_EverySettled ==
  \A i \in RequestIds : (obs.submitted >= i) ~> (Settled(i) >= 1)

\* The second request, queued while the first was in hand, is settled
\* after the first was rejected.
C8_Witness ==
  /\ obs.rejects[1] = 1
  /\ obs.backlog >= 1
  /\ Settled(2) = 1

(***************************************************************************)
(* C9. Every request is dequeued once and settled once, by resolve or by   *)
(* reject; a settled request is neither queued nor in hand, and a request  *)
(* that was dequeued and is no longer in hand is settled.                  *)
(***************************************************************************)
C9_SettledOnce ==
  \A i \in RequestIds :
     /\ obs.dequeued[i] <= 1
     /\ Settled(i) <= 1
     /\ Settled(i) = 1 => obs.dequeued[i] = 1 /\ ~Queued(i) /\ ~Handling(i)
     /\ (obs.dequeued[i] = 1 /\ ~Handling(i)) => Settled(i) = 1
     /\ obs.dequeued[i] = 0 => (Queued(i) <=> i <= obs.submitted)

\* One request resolved, one rejected, a third in hand.
C9_Witness ==
  /\ \E i \in RequestIds : obs.resolves[i] = 1
  /\ \E i \in RequestIds : obs.rejects[i] = 1
  /\ \E i \in RequestIds : Handling(i)

(***************************************************************************)
(* C10. The k-th close with a code other than 1000 (k = 1..5) schedules a  *)
(* connect() after 2000, 4000, 8000, 16000, 30000 ms; every later one      *)
(* emits error and then maxReconnects, and schedules nothing.              *)
(***************************************************************************)
C10_Delays == <<2000, 4000, 8000, 16000, 30000>>

C11_ReadyResetsAttempts ==
  \A g \in Gateways : ready[g] => reconnectAttempts[g] = 0

(***************************************************************************)
(* C12. A close with code 1000 schedules no reconnect, leaves the          *)
(* reconnect counter as it was and emits nothing but disconnected,        *)
(* whatever the counter is.                                                *)
(***************************************************************************)
CleanlyClosed(o) ==
  /\ o.emitted # <<>>
  /\ o.emitted[1].name = "disconnected"
  /\ o.emitted[1].code = CleanClose

C12_CleanCloseNoReconnect ==
  [][CleanlyClosed(gobs') =>
       /\ reconnectAttempts' = reconnectAttempts
       /\ timeouts' = timeouts
       /\ gobs'.scheduled = gobs.scheduled
       /\ gobs'.exhausted = gobs.exhausted
       /\ Len(gobs'.emitted) = 1]_vars

\* A clean close when the budget is used up.
C12_Witness ==
  /\ CleanlyClosed(gobs)
  /\ \E g \in Gateways : reconnectAttempts[g] = maxReconnectAttempts

(***************************************************************************)
(* C13. After disconnect() no socket is made until the caller calls        *)
(* connect() again, whatever the state disconnect() was called in.         *)
(***************************************************************************)
C13_DisconnectSuppressesReconnect ==
  [][(gobs.stopped /\ gobs'.stopped) => Len(sockets') = Len(sockets)]_vars

(***************************************************************************)
(* C14. A close with a code other than 1000, of a connection whose         *)
(* counter is below 5, adds one to the counter and sets one timer; every   *)
(* timer set calls connect() once, and in the end has done so.             *)
(***************************************************************************)
Closing(k) == sockets[k].readyState # "CLOSED" /\ sockets'[k].readyState = "CLOSED"

C14_AbnormalCloseReconnects ==
  /\ [][\A k \in 1..Len(sockets) :
          ( /\ Closing(k)
            /\ gobs'.emitted[1].code # CleanClose
            /\ reconnectAttempts[sockets[k].of] < maxReconnectAttempts )
          => /\ reconnectAttempts' =
                  [reconnectAttempts EXCEPT ![sockets[k].of] = @ + 1]
             /\ timeouts \subseteq timeouts'
             /\ Cardinality(timeouts' \ timeouts) = 1
             /\ \A timer \in timeouts' \ timeouts : timer.of = sockets[k].of]_vars
  /\ [](gobs.auto + Cardinality(timeouts) = Len(gobs.scheduled))
  /\ \A n \in 1..maxReconnectAttempts :
        (Len(gobs.scheduled) >= n) ~> (gobs.auto >= n)

\* Five abnormal closes, each followed by its connect().
C14_Witness ==
  /\ gobs.auto = maxReconnectAttempts
  /\ gobs.abnormal = maxReconnectAttempts
  /\ timeouts = {}

(***************************************************************************)
(* C15. A Hello on an open connection sends one identify frame and starts  *)
(* a heartbeat loop of the frame's interval; a heartbeat frame goes out    *)
(* only on an open socket, and only on one that has received a Hello.      *)
(***************************************************************************)
C15_HelloStartsHeartbeat ==
  /\ [][gobs'.hello # gobs.hello =>
          /\ Len(gobs'.sent) = 1
          /\ gobs'.sent[1].op = 2
          /\ Cardinality(intervals' \ intervals) = 1
          /\ \A timer \in intervals' \ intervals :
                 /\ timer.every = 45000
                 /\ heartbeatInterval'[timer.of] = timer.id]_vars
  /\ [](\A i \in 1..Len(gobs.sent) :
          gobs.sent[i].op = 1 =>
             /\ sockets[gobs.sent[i].on].readyState = "OPEN"
             /\ gobs.sent[i].on \in gobs.hello)

(***************************************************************************)
(* C16. Once a frame with a sequence number has come in, the stored        *)
(* sequence number is that of the latest such frame, and a heartbeat       *)
(* frame carries it.                                                       *)
(***************************************************************************)
C16_SequenceIsLastSeen ==
  /\ \A g \in Gateways : gobs.lastSeq[g] # 0 => sequence[g] = gobs.lastSeq[g]
  /\ \A i \in 1..Len(gobs.sent) :
        gobs.sent[i].op = 1 =>
           gobs.sent[i].d = gobs.lastSeq[sockets[gobs.sent[i].on].of]

(***************************************************************************)
(* C17. Once a socket has emitted close, no heartbeat timer that was       *)
(* started on it is live.                                                  *)
(***************************************************************************)
C17_CloseCancelsHeartbeat ==
  \A timer \in intervals : sockets[timer.on].readyState # "CLOSED"

(***************************************************************************)
(* C18. A client has at most one gateway socket that is connecting or      *)
(* open.                                                                   *)
(***************************************************************************)
Live == { k \in 1..Len(sockets) : sockets[k].readyState \in {"CONNECTING", "OPEN"} }

C18_OneLiveSocket == Cardinality(Live) <= 1

(***************************************************************************)
(* C19. A connect() made by the reconnect timer starts from a fresh        *)
(* session: no session identifier, no sequence number, not ready.          *)
(***************************************************************************)
C19_ReconnectResetsSession ==
  [][\A timer \in timeouts \ timeouts' :
        /\ sessionId'[timer.of] = JsNone
        /\ sequence'[timer.of] = 0
        /\ ~ready'[timer.of]]_vars

(***************************************************************************)
(* C20. No handler of the connection ends by an exception.                 *)
(***************************************************************************)
C20_NeverThrows ==
  \A i \in 1..Len(gobs.emitted) : gobs.emitted[i] # Thrown

\* The frame just handled was well-formed and its op is none of 0, 10, 11.
Dropped(o) ==
  /\ o.heard # <<>>
  /\ o.heard[1].frame.shape = "ok"
  /\ o.heard[1].frame.op \notin {0, 10, 11}

\* C21: a frame whose op is not 0, 10 or 11 is dropped: handling it emits
\* no client event and sends no frame, and leaves the ready flag, the session
\* identifier, the heartbeat timer, the reconnect counter and the socket as
\* they were; the socket is still open, so later frames are handled.
C21_UnknownOpDropped ==
  [][Dropped(gobs') =>
       /\ gobs'.emitted = <<>>
       /\ gobs'.sent = <<>>
       /\ UNCHANGED <<ready, sessionId, client, heartbeatInterval, intervals,
                      reconnectAttempts, timeouts, ws, sockets>>
       /\ sockets'[gobs'.heard[1].on].readyState = "OPEN"]_vars

\* An unknown op arrived on a connection that was ready.
C21_Witness == Dropped(gobs) /\ ready[1] /\ gobs.frames = 2

\* The frame just handled was a dispatch.
Dispatched(o) ==
  /\ o.heard # <<>>
  /\ o.heard[1].frame.shape = "ok"
  /\ o.heard[1].frame.op = 0

\* C22: every dispatch frame causes exactly one client event: ready for
\* READY, messageCreate for MESSAGE_CREATE, guildCreate for GUILD_CREATE,
\* channelCreate for CHANNEL_CREATE, and the raw dispatch event for every
\* other type, never for these four.
C22_OneEventPerDispatch ==
  Dispatched(gobs) =>
    LET t == gobs.heard[1].frame.t IN
    /\ Len(gobs.emitted) = 1
    /\ t = "READY" => gobs.emitted[1].name = "ready"
    /\ t = "MESSAGE_CREATE" => gobs.emitted[1].name = "messageCreate"
    /\ t = "GUILD_CREATE" => gobs.emitted[1].name = "guildCreate"
    /\ t = "CHANNEL_CREATE" => gobs.emitted[1].name = "channelCreate"
    /\ gobs.emitted[1].name = "dispatch" <=>
         t \notin {"READY", "MESSAGE_CREATE", "GUILD_CREATE", "CHANNEL_CREATE"}

\* A channel was created and announced, and later a frame of a type the
\* library does not know was forwarded raw.
C22_Witness ==
  /\ Dispatched(gobs)
  /\ gobs.heard[1].frame.t = "TYPING_START"
  /\ gobs.emitted = <<Event("dispatch", 0)>>
  /\ client.channels # {}

\* C23: Ready (ready flag true, session identifier captured) is entered only
\* by a READY dispatch received on an open socket on which a Hello had been
\* received and answered with an identify frame; never from a connection
\* that is disconnected, connecting or still awaiting the Hello.
C23_ReadyOnlyAfterHandshake ==
  [][\A g \in Gateways :
       (~ready[g] /\ ready'[g]) =>
         /\ Dispatched(gobs')
         /\ gobs'.heard[1].frame.t = "READY"
         /\ sockets[gobs'.heard[1].on].of = g
         /\ sockets[gobs'.heard[1].on].readyState = "OPEN"
         /\ gobs'.heard[1].on \in gobs.hello
         /\ sessionId'[g] # JsNone]_vars

\* The order of a socket's states.
Rank(readyState) ==
  CASE readyState = "CONNECTING" -> 0
    [] readyState = "OPEN" -> 1
    [] readyState = "CLOSING" -> 2
    [] readyState = "CLOSED" -> 3

Opens(k) == sockets[k].readyState = "CONNECTING" /\ sockets'[k].readyState = "OPEN"
Closes(k) == sockets[k].readyState # "CLOSED" /\ sockets'[k].readyState = "CLOSED"
Count(name, events) == Cardinality({ i \in DOMAIN events : events[i].name = name })

\* C24: every socket open emits exactly one connected event, every socket
\* close exactly one disconnected event with that close's code and reason.
\* Per socket the order is connected, ready, disconnected: connected is
\* emitted as the socket opens, ready only while it is open, disconnected as
\* it closes, and a socket never goes back to an earlier state.  The
\* disconnected event is the first event of the close handler, ahead of the
\* exhaustion event and of what reconnect() does.
C24_ConnectedThenDisconnected ==
  [][/\ \A k \in DOMAIN sockets :
          /\ Rank(sockets'[k].readyState) >= Rank(sockets[k].readyState)
          /\ Opens(k) => gobs'.emitted = <<Event("connected", 0)>>
          /\ Closes(k) =>
               /\ gobs'.emitted[1] =
                    [name |-> "disconnected", code |-> sockets'[k].closeCode,
                     reason |-> sockets'[k].closeReason]
               /\ Count("disconnected", gobs'.emitted) = 1
               /\ gobs'.scheduled # gobs.scheduled \/ gobs'.exhausted # gobs.exhausted
                    => sockets'[k].closeCode # CleanClose
     /\ Count("connected", gobs'.emitted) > 0 => \E k \in DOMAIN sockets : Opens(k)
     /\ Count("disconnected", gobs'.emitted) > 0 => \E k \in DOMAIN sockets : Closes(k)
     /\ Count("ready", gobs'.emitted) > 0 =>
          /\ sockets[gobs'.heard[1].on].readyState = "OPEN"
          /\ sockets'[gobs'.heard[1].on].readyState = "OPEN"]_vars

\* A socket that had opened and become ready closes abnormally: disconnected
\* is emitted and a reconnect is scheduled.
C24_Witness ==
  /\ Len(sockets) = 1
  /\ sockets[1].readyState = "CLOSED"
  /\ sessionId[1] # JsNone
  /\ gobs.emitted = <<onClose_event(1006, "")>>
  /\ timeouts # {}

\* A socket's close handler ran, or disconnect() was called.
GatewayGoesDown ==
  \/ \E k \in DOMAIN sockets : Closes(k)
  \/ gobs'.exhausted # gobs.exhausted
  \/ gobs'.stopped /\ gatewayVars' # gatewayVars /\ gobs'.connects = gobs.connects
       /\ gobs'.auto = gobs.auto

\* C25: a gateway close, disconnect() or reconnect exhaustion leaves the
\* request scheduler as it was: queue, processing flag, buckets, global
\* limit and the loop's position are unchanged, no request is settled by it,
\* and requests keep starting in the order of their submission.
C25_GatewayLeavesScheduler ==
  /\ [](\A i \in 1..Len(obs.started) : obs.started[i] = i)
  /\ [][GatewayGoesDown =>
          /\ UNCHANGED <<requestQueue, processingQueue, rateLimits, globalRateLimit, loops>>
          /\ obs'.rejects = obs.rejects
          /\ obs'.resolves = obs.resolves
          /\ obs'.dequeued = obs.dequeued]_vars

\* The reconnect attempts have just run out while one request is in flight
\* and another waits in the queue.
C25_Witness ==
  /\ gobs.exhausted = 1
  /\ Count("maxReconnects", gobs.emitted) = 1
  /\ requestQueue # <<>>
  /\ processingQueue
  /\ rateLimits # <<>>

\* The fetch of activation l ends in this step.
Responds(l) ==
  /\ loops[l].pc = "fetch"
  /\ loops'[l].pc # "fetch" \/ obs'.cur.id # obs.cur.id

\* The response carries the quota headers.
Carries(quota) == quota.remaining # Absent /\ quota.reset # Absent

\* The registry as it reads once the time of a fetch has passed, and the
\* bucket that holds the quota of a response that has just arrived.
Later(registry) ==
  [k \in DOMAIN registry |->
     [registry[k] EXCEPT !.reset = Since(@, HttpLatency, 1),
                         !.updatedAt = Since(@, HttpLatency, 1)]]
BucketOf(quota) ==
  [remaining |-> quota.remaining, reset |-> Since(quota.reset, HttpLatency, 1),
   limit |-> quota.limit, updatedAt |-> 0]

\* C26, as stated: after every response that carries quota headers, whatever
\* its status, the bucket under the request's route key holds the remaining
\* count, reset time and limit of that response; an attempt without a
\* response leaves the registry as it was.
C26_BucketHoldsQuota ==
  [][\A l \in LoopIds :
       Responds(l) =>
         LET response == obs'.response[1].of
             routeKey == obs'.response[1].routeKey
         IN IF response.threw THEN rateLimits' = Later(rateLimits)
            ELSE Carries(response.quota) =>
                   /\ routeKey \in DOMAIN rateLimits'
                   /\ rateLimits'[routeKey] = BucketOf(response.quota)]_vars

\* C26, amended: the same for a response whose reset time is not already past
\* when it arrives; the bucket of a response whose reset time is past is
\* pruned at once, and no bucket is left under the route key.
C26_BucketHoldsUnexpiredQuota ==
  [][\A l \in LoopIds :
       Responds(l) =>
         LET response == obs'.response[1].of
             routeKey == obs'.response[1].routeKey
         IN IF response.threw THEN rateLimits' = Later(rateLimits)
            ELSE Carries(response.quota) =>
                   IF response.quota.reset < HttpLatency
                   THEN routeKey \notin DOMAIN rateLimits'
                   ELSE /\ routeKey \in DOMAIN rateLimits'
                        /\ rateLimits'[routeKey] = BucketOf(response.quota)]_vars

\* The second request's response brings a quota for a route that has a
\* bucket from the first, and the bucket now holds the new values.
C26_Witness ==
  /\ obs.response # <<>>
  /\ obs.cur.id = 2
  /\ Carries(obs.response[1].of.quota)
  /\ obs.response[1].of.quota.remaining = 1
  /\ obs.response[1].of.status = 200
  /\ obs.response[1].routeKey \in DOMAIN rateLimits
  /\ rateLimits[obs.response[1].routeKey].remaining = 1

\* C27: after a request is settled, resolved or rejected, the first HTTP
\* attempt of the next request starts no earlier than 100 ms later.
C27_PauseAfterSettlement ==
  obs.cur.attempts >= 1 => obs.cur.sinceSettled >= InterRequestDelay

\* C28: the global limit is set only by a 429 response flagged global, and a
\* loop iteration that starts at or after its reset time leaves it absent:
\* once a request has been dequeued, a global limit that is still there has
\* its reset time ahead.
C28_GlobalLimitCleared ==
  [][/\ (globalRateLimit = <<>> /\ globalRateLimit' # <<>>) =>
          /\ \E l \in LoopIds : Responds(l)
          /\ obs'.response[1].of.status = 429
          /\ obs'.response[1].of.globalHeader = "true"
     /\ obs'.cur.id # obs.cur.id =>
          \/ globalRateLimit' = <<>>
          \/ globalRateLimit'[1].reset > 0]_vars

\* A response that carries quota headers arrives in this step: a bucket update.
Updates ==
  /\ \E l \in LoopIds : Responds(l)
  /\ ~obs'.response[1].of.threw
  /\ Carries(obs'.response[1].of.quota)

\* C29: pruning removes exactly the expired buckets: right after a bucket
\* update no bucket of the registry has a reset time earlier than now, and a
\* bucket leaves the registry only in a bucket update that finds its reset
\* time past (for the bucket of the response's own route, the reset time the
\* response brings).
C29_PruneExactlyExpired ==
  [][/\ Updates => \A k \in DOMAIN rateLimits' : rateLimits'[k].reset >= 0
     /\ \A k \in DOMAIN rateLimits \ DOMAIN rateLimits' :
          /\ Updates
          /\ k \in obs'.pruned
          /\ IF k = obs'.response[1].routeKey
             THEN obs'.response[1].of.quota.reset < HttpLatency
             ELSE rateLimits[k].reset < HttpLatency]_vars

\* An update has pruned the expired bucket of one route and left the bucket
\* of another.
C29_Witness ==
  /\ obs.response # <<>>
  /\ obs.pruned # {}
  /\ obs.response[1].routeKey \notin obs.pruned
  /\ obs.response[1].routeKey \in DOMAIN rateLimits

\* A response with a status that is neither a success nor 429.
ErrorStatus(response) ==
  ~response.threw /\ response.status # 429 /\ ~ok(response.status)

\* C30: a request rejected on a non-success, non-429 response is rejected
\* with a DiscordAPIError whose status is that of the response, whose path
\* is the endpoint as it was submitted, and whose message is the message of
\* the response body, or "Unknown error" when the body cannot be parsed.
C30_RejectionIsApiError ==
  (obs.last.how = "reject" /\ obs.response # <<>> /\ ErrorStatus(obs.response[1].of)) =>
    LET response == obs.response[1].of IN
    /\ obs.last.val.kind = "DiscordAPIError"
    /\ obs.last.val.status = response.status
    /\ obs.last.val.path = obs.response[1].endpoint
    /\ obs.last.val.message =
         IF response.bodyParses THEN response.message ELSE "Unknown error"

\* A request for /c/2 has been rejected on a 404 whose body says why.
C30_Witness ==
  /\ obs.last.how = "reject"
  /\ obs.last.val = [kind |-> "DiscordAPIError", n |-> 3, status |-> 404,
                     message |-> "Unknown Channel", path |-> <<"/", "c", "/", "2">>]

\* A segment that consists of digits only.
Numeric(seg) == seg # <<>> /\ \A i \in DOMAIN seg : seg[i] \in Digits

\* Same method, as many segments, and the segments equal wherever they are
\* not both numeric.
SameRoute(a, b) ==
  /\ toUpperCase(a.method) = toUpperCase(b.method)
  /\ Len(a.segments) = Len(b.segments)
  /\ \A i \in DOMAIN a.segments :
        \/ a.segments[i] = b.segments[i]
        \/ Numeric(a.segments[i]) /\ Numeric(b.segments[i])

\* C31: getRouteKey replaces exactly the purely numeric path segments by a
\* placeholder and prefixes the upper-cased method: two endpoints get the same
\* key exactly when they have the same method and differ only in the values
\* of purely numeric segments.
C31_RouteKeySeparates ==
  obs.keyed # <<>> => (obs.keyed[1].key = obs.keyed[2].key <=> SameRoute(obs.keyed[1], obs.keyed[2]))

\* C32: the promise of Client.login(token) resolves only when the connection
\* is established: at the moment it resolves the gateway socket is open.
C32_LoginResolvesConnected ==
  [][(~client.token /\ client'.token) =>
       sockets'[ws'[client'.ws]].readyState = "OPEN"]_vars

\* C33: Client.getChannel(channelId) returns the cached Channel for that id,
\* or null when no channel with that id is cached, and leaves the channel
\* cache as it was.
C33_GetChannelReadsCache ==
  [][gobs'.got # gobs.got =>
       /\ client'.channels = client.channels
       /\ gobs'.got[1].channel =
            IF gobs'.got[1].id \in client.channels THEN gobs'.got[1].id ELSE JsNone]_vars

\* C34: a request is resolved only after one of its attempts returned a
\* success status, and with that response's result: null for 204, the parsed
\* body otherwise; never, whatever the responses, with a value that comes from
\* no success response.
C34_ResolvedFromSuccess ==
  obs.last.how = "resolve" =>
    /\ obs.last.of.lastKind = "success"
    /\ obs.response # <<>>
    /\ ok(obs.response[1].of.status)
    /\ obs.last.val.kind = IF obs.response[1].of.status = 204 THEN "null" ELSE "body"

\* C35: whenever the processing flag is false (and no request() call is in
\* the middle of its run) the queue is empty: a request that waits in the
\* queue has the flag set and an activation of processQueue that will come
\* to it, whatever the earlier requests ended in.
C35_NoRequestStranded ==
  /\ ~processingQueue => requestQueue = <<>>
  /\ requestQueue # <<>> => \E l \in LoopIds : Active(l)

\* The loop has ended after a rejection and a resolution, having found two
\* requests waiting in the queue that came in while it was suspended.
C35_Witness ==
  /\ ~processingQueue
  /\ obs.submitted = 3
  /\ obs.backlog >= 2
  /\ \E i \in RequestIds : obs.rejects[i] = 1
  /\ \E i \in RequestIds : obs.resolves[i] = 1
  /\ \A i \in 1..3 : obs.rejects[i] + obs.resolves[i] = 1

\* C36: at every moment at most one heartbeat timer is live per connection
\* object, whatever the connects, Hello frames (a second Hello on the same
\* socket included), closes and reconnects.
C36_OneHeartbeatTimer ==
  \A g \in Gateways : Cardinality({ timer \in intervals : timer.of = g }) <= 1

\* A socket that a later connect() of its connection has replaced.
Superseded(k) == ws[sockets[k].of] # k

\* C37: the close of a superseded socket leaves the current connection as it
\* is: the heartbeat timers started on the current socket stay, the ready flag
\* keeps its value, and no reconnect is scheduled against a current socket
\* that is connecting or open.
C37_SupersededIsInert ==
  [][\A k \in 1..Len(sockets) :
       (Superseded(k) /\ Closes(k)) =>
         LET g == sockets[k].of IN
         /\ { timer \in intervals : timer.on = ws[g] } \subseteq intervals'
         /\ ready'[g] = ready[g]
         /\ sockets[ws[g]].readyState \in {"CONNECTING", "OPEN"} => timeouts' = timeouts]_vars

\* C38: a connection has at most one reconnect timer pending, and the firing
\* of a reconnect timer closes no socket that is open.
C38_OneReconnectTimer ==
  /\ [](\A g \in Gateways : Cardinality({ timer \in timeouts : timer.of = g }) <= 1)
  /\ [][gobs'.auto # gobs.auto =>
          \A k \in 1..Len(sockets) :
            sockets[k].readyState = "OPEN" => sockets'[k].readyState = "OPEN"]_vars

\* C39: while the ready flag of a connection is set its current socket is
\* open and its session id is not null; a close event clears the flag, and
\* only a READY dispatch sets it.
C39_ReadyMeansOpen ==
  /\ [](\A g \in Gateways :
          ready[g] => /\ ws[g] # 0
                      /\ sockets[ws[g]].readyState = "OPEN"
                      /\ sessionId[g] # JsNone)
  /\ [][\A g \in Gateways :
          /\ (\E k \in 1..Len(sockets) : sockets[k].of = g /\ Closes(k)) => ~ready'[g]
          /\ (~ready[g] /\ ready'[g]) =>
                (gobs'.heard # <<>> /\ gobs'.heard[1].frame.t = "READY")]_vars

\* A precondition of clickButton fails: the message has no button, the
\* number given is no index of a button, the input is of no accepted type,
\* or the client holds no session id.
Failing(message, input) ==
  \/ Len(Buttons(message)) = 0
  \/ input.type = "number" /\ ~(0 <= input.n /\ input.n < Len(Buttons(message)))
  \/ input.type \notin {"null", "number", "string"}
  \/ client.sessionId = JsNone

\* C40: a call of Message.clickButton with a failing precondition is
\* rejected and leaves the request queue and the scheduler as they are; any
\* other call submits exactly one POST /interactions, with the session id
\* that a connection of the client got from a READY dispatch.
C40_ClickNeedsSession ==
  [][obs'.clicked # obs.clicked =>
       LET click == obs'.clicked[1] IN
       IF Failing(click.message, click.input)
       THEN /\ click.error # ""
            /\ requestQueue' = requestQueue
            /\ processingQueue' = processingQueue
            /\ loops' = loops
            /\ obs'.submitted = obs.submitted
       ELSE /\ click.error = ""
            /\ obs'.submitted = obs.submitted + 1
            /\ \E g \in Gateways :
                 sessionId[g] = click.sessionId /\ gobs.lastSeq[g] = 1
            /\ \/ \E i \in 1..Len(requestQueue') :
                    /\ requestQueue'[i].id = obs'.submitted
                    /\ requestQueue'[i].endpoint = Interactions
                    /\ requestQueue'[i].method = "POST"
               \/ \E l \in LoopIds :
                    /\ loops'[l].req.id = obs'.submitted
                    /\ loops'[l].req.endpoint = Interactions
                    /\ loops'[l].req.method = "POST"]_vars

C40_Witness ==
  /\ obs.clicked # <<>>
  /\ obs.clicked[1].error = "Button index out of range"
  /\ obs.clicked[1].sessionId # JsNone
  /\ obs.submitted = 2
  /\ requestQueue # <<>>
====
